---------------------------- MODULE Spec2Model ----------------------------
(***************************************************************************)
(* A model of app.py, the Streamlit home-design assistant.                 *)
(*                                                                         *)
(* A Python str is a sequence of one-character strings, so formatting,     *)
(* lower(), join and the "in" substring test are computed character by     *)
(* character.  A Python list is a sequence; Python index i is index i+1    *)
(* here.  One action is one user event: a click or submission runs the     *)
(* whole script main() once.                                               *)
(***************************************************************************)
EXTENDS Integers, Sequences, FiniteSets, TLC

VARIABLES
    room_details,       \* st.session_state.room_details
    remove_room_flags,  \* st.session_state.remove_room_flags
    widgets,            \* session state of the per-room widgets, by position
    design_cache,       \* st.session_state.design_cache
    cache_src,          \* history: the input tuple whose upstream call filled each entry
    out,                \* what the last run of main() did and put on the page
    event,              \* the last user event
    img_style,          \* the argument handed to fetch_design_image
    img_result          \* what fetch_design_image returned for it

vars == <<room_details, remove_room_flags, widgets, design_cache, cache_src,
          out, event, img_style, img_result>>

----------------------------------------------------------------------------
(* Bounds *)

\* most rooms a session adds
MaxRooms == 3
\* most non-empty texts the upstream text service returns in one session
MaxTexts == 2
\* most words in a style handed to fetch_design_image
MaxWords == 2

----------------------------------------------------------------------------
(* Python str operations *)

UpperChars == <<"A","B","C","D","E","F","G","H","I","J","K","L","M","N","O","P","Q","R","S","T","U",
      "V","W","X","Y","Z">>

LowerChars == <<"a","b","c","d","e","f","g","h","i","j","k","l","m","n","o","p","q","r","s","t","u",
      "v","w","x","y","z">>

LowerChar(c) ==
    IF \E i \in 1..Len(UpperChars) : UpperChars[i] = c
    THEN LowerChars[CHOOSE i \in 1..Len(UpperChars) : UpperChars[i] = c]
    ELSE c

\* str.lower()
Lower(s) == [i \in 1..Len(s) |-> LowerChar(s[i])]

\* sub in s
Contains(sub, s) ==
    \E i \in 0..(Len(s) - Len(sub)) : SubSeq(s, i + 1, i + Len(sub)) = sub

\* sep.join(parts)
RECURSIVE Join(_, _)
Join(sep, parts) ==
    IF Len(parts) = 0 THEN <<>>
    ELSE IF Len(parts) = 1 THEN parts[1]
    ELSE parts[1] \o sep \o Join(sep, Tail(parts))

----------------------------------------------------------------------------
(* fetch_design_image *)

style_images == <<
    [key |-> <<"M","o","d","e","r","n">>,
     url |-> "https://images.unsplash.com/photo-1507089947368-19c1da9775ae?auto=format&fit=crop&w=800&q=80"],
    [key |-> <<"R","u","s","t","i","c">>,
     url |-> "https://images.unsplash.com/photo-1460518451285-97b6aa326961?auto=format&fit=crop&w=800&q=80"],
    [key |-> <<"T","r","a","d","i","t","i","o","n","a","l">>,
     url |-> "https://images.unsplash.com/photo-1512918728675-ed5a9ecdebfd?auto=format&fit=crop&w=800&q=80"],
    [key |-> <<"M","i","n","i","m","a","l","i","s","t">>,
     url |-> "https://images.unsplash.com/photo-1519125323398-675f0ddb6308?auto=format&fit=crop&w=800&q=80"],
    [key |-> <<"L","u","x","u","r","y">>,
     url |-> "https://images.unsplash.com/photo-1505691938895-1758d7feb511?auto=format&fit=crop&w=800&q=80"] >>

DefaultImage ==
    "https://images.unsplash.com/photo-1506744038136-46273834b3fb?auto=format&fit=crop&w=800&q=80"

\* a variant that compares the key with the style as typed
KeyMatchesCaseSensitive(key, style) == Contains(key, style)

\* key.lower() in style.lower()
KeyMatches(key, style) == Contains(Lower(key), Lower(style))

\* the for loop over style_images, from position i on
RECURSIVE ImageLoop(_, _)
ImageLoop(style, i) ==
    IF i > Len(style_images) THEN DefaultImage
    ELSE IF KeyMatches(style_images[i].key, style) THEN style_images[i].url
    ELSE ImageLoop(style, i + 1)

fetch_design_image(style) == ImageLoop(style, 1)

----------------------------------------------------------------------------
(* The design cache and generate_design_idea *)

Sep == <<"_">>

\* f"{style}_{size}_{rooms}_{preferences}"
get_cache_key(style, size, rooms, preferences) ==
    style \o Sep \o size \o Sep \o rooms \o Sep \o preferences

\* a variant whose heading holds the lower-cased style
FallbackDesignLowerHeading(style, size, rooms) ==
    <<"\n"," "," "," "," ","#","#"," ">> \o Lower(style) \o <<" ","H","o","m","e"," ","D","e","s","i","g","n",":"," ">> \o size \o <<","," ">> \o rooms
        \o <<" ","B","e","d","r","o","o","m","s","\n"," "," "," "," ","\n"," "," "," "," ","*",
      "*","O","v","e","r","v","i","e","w",":","*","*","\n"," "," "," "," ","T","h","i","s",
      " ">> \o Lower(style)
        \o <<" ","h","o","m","e"," ","f","e","a","t","u","r","e","s"," ">> \o rooms \o <<" ","r","o","o","m","s"," ","a","c","r","o","s","s"," ">> \o size
        \o <<".","\n"," "," "," "," ","\n"," "," "," "," ","*","*","L","a","y","o","u","t",":",
      "*","*","\n"," "," "," "," ","-"," ","O","p","e","n"," ","l","i","v","i","n","g"," ",
      "a","r","e","a","\n"," "," "," "," ","-"," ">> \o rooms
        \o <<" ","b","e","d","r","o","o","m","s","\n"," "," "," "," ","-"," ","M","o","d","e","r",
      "n"," ","a","m","e","n","i","t","i","e","s","\n"," "," "," "," ","\n"," "," "," ",
      " ","*","*","D","e","s","i","g","n"," ","T","i","p","s",":","*","*","\n"," "," "," ",
      " ","-"," ","U","s","e"," ","n","a","t","u","r","a","l"," ","m","a","t","e","r","i",
      "a","l","s","\n"," "," "," "," ","-"," ","L","a","r","g","e"," ","w","i","n","d","o",
      "w","s"," ","f","o","r"," ","l","i","g","h","t","\n"," "," "," "," ","-"," ","F","u",
      "n","c","t","i","o","n","a","l"," ","s","p","a","c","e","s","\n"," "," "," "," ",
      "\n"," "," "," "," ","N","o","t","e",":"," ","C","u","s","t","o","m"," ","d","e","s",
      "i","g","n"," ","u","n","a","v","a","i","l","a","b","l","e"," ","n","o","w","."," ",
      "T","r","y"," ","a","g","a","i","n"," ","l","a","t","e","r",".","\n"," "," "," "," ">>

\* the fallback f-string
FallbackDesign(style, size, rooms) ==
    <<"\n"," "," "," "," ","#","#"," ">> \o style \o <<" ","H","o","m","e"," ","D","e","s","i","g","n",":"," ">> \o size \o <<","," ">> \o rooms
        \o <<" ","B","e","d","r","o","o","m","s","\n"," "," "," "," ","\n"," "," "," "," ","*",
      "*","O","v","e","r","v","i","e","w",":","*","*","\n"," "," "," "," ","T","h","i","s",
      " ">> \o Lower(style)
        \o <<" ","h","o","m","e"," ","f","e","a","t","u","r","e","s"," ">> \o rooms \o <<" ","r","o","o","m","s"," ","a","c","r","o","s","s"," ">> \o size
        \o <<".","\n"," "," "," "," ","\n"," "," "," "," ","*","*","L","a","y","o","u","t",":",
      "*","*","\n"," "," "," "," ","-"," ","O","p","e","n"," ","l","i","v","i","n","g"," ",
      "a","r","e","a","\n"," "," "," "," ","-"," ">> \o rooms
        \o <<" ","b","e","d","r","o","o","m","s","\n"," "," "," "," ","-"," ","M","o","d","e","r",
      "n"," ","a","m","e","n","i","t","i","e","s","\n"," "," "," "," ","\n"," "," "," ",
      " ","*","*","D","e","s","i","g","n"," ","T","i","p","s",":","*","*","\n"," "," "," ",
      " ","-"," ","U","s","e"," ","n","a","t","u","r","a","l"," ","m","a","t","e","r","i",
      "a","l","s","\n"," "," "," "," ","-"," ","L","a","r","g","e"," ","w","i","n","d","o",
      "w","s"," ","f","o","r"," ","l","i","g","h","t","\n"," "," "," "," ","-"," ","F","u",
      "n","c","t","i","o","n","a","l"," ","s","p","a","c","e","s","\n"," "," "," "," ",
      "\n"," "," "," "," ","N","o","t","e",":"," ","C","u","s","t","o","m"," ","d","e","s",
      "i","g","n"," ","u","n","a","v","a","i","l","a","b","l","e"," ","n","o","w","."," ",
      "T","r","y"," ","a","g","a","i","n"," ","l","a","t","e","r",".","\n"," "," "," "," ">>

\* What model.generate_content(prompt) does: it raises, or it returns a
\* response whose text may be empty.
TextRaises(msg) == [kind |-> "exception", msg |-> msg, text |-> <<>>]

TextReturns(text) == [kind |-> "text", msg |-> <<>>, text |-> text]

TextFails(resp) == resp.kind = "exception" \/ resp.text = <<>>

\* a variant that returns the text without storing it
store_nothing(cache, cache_key, text) == cache

\* st.session_state.design_cache[cache_key] = response.text
store_design(cache, cache_key, text) == (cache_key :> text) @@ cache

\* generate_design_idea on the cache `cache`, the upstream call answering
\* `resp`: the text returned, the cache left, the upstream calls made and
\* the messages put on the page
generate_design_idea(cache, style, size, rooms, preferences, resp) ==
    LET cache_key == get_cache_key(style, size, rooms, preferences)
    IN  IF cache_key \in DOMAIN cache
        THEN [ret |-> cache[cache_key], cache |-> cache, hit |-> TRUE,
              calls |-> 0, stored |-> FALSE, shown |-> <<>>]
        ELSE IF ~TextFails(resp)
        THEN [ret |-> resp.text, cache |-> store_design(cache, cache_key, resp.text),
              hit |-> FALSE, calls |-> 1, stored |-> TRUE, shown |-> <<>>]
        ELSE [ret |-> FallbackDesign(style, size, rooms), cache |-> cache,
              hit |-> FALSE, calls |-> 1, stored |-> FALSE,
              shown |-> IF resp.kind = "exception"
                        THEN << [level |-> "error",
                                 text |-> <<"E","r","r","o","r"," ","g","e","n","e","r","a","t","i","n","g"," ","d","e","s","i",
      "g","n",":"," ">> \o resp.msg] >>
                        ELSE <<>>]

----------------------------------------------------------------------------
(* fetch_unsplash_images *)

\* What the image search does: UNSPLASH_ACCESS_KEY is not set, requests.get
\* or the decoding of its answer raises, the answer has no "results", or it
\* has them.
ImageNoKey == [kind |-> "nokey", msg |-> <<>>, urls |-> <<>>]

ImageRaises(msg) == [kind |-> "exception", msg |-> msg, urls |-> <<>>]

ImageNoResults == [kind |-> "noresults", msg |-> <<>>, urls |-> <<>>]

ImageResults(urls) == [kind |-> "results", msg |-> <<>>, urls |-> urls]

fetch_unsplash_images(resp) ==
    IF resp.kind = "nokey"
    THEN [ret |-> <<>>, calls |-> 0,
          shown |-> << [level |-> "warning",
                        text |-> <<"U","n","s","p","l","a","s","h"," ","A","c","c","e","s","s"," ","K","e","y"," ","n",
      "o","t"," ","f","o","u","n","d","."," ","P","l","e","a","s","e"," ","s","e","t"," ",
      "t","h","e"," ","U","N","S","P","L","A","S","H","_","A","C","C","E","S","S","_","K",
      "E","Y"," ","e","n","v","i","r","o","n","m","e","n","t"," ","v","a","r","i","a","b",
      "l","e",".">>] >>]
    ELSE IF resp.kind = "exception"
    THEN [ret |-> <<>>, calls |-> 1,
          shown |-> << [level |-> "warning",
                        text |-> <<"E","r","r","o","r"," ","f","e","t","c","h","i","n","g"," ","i","m","a","g","e","s",
      ":"," ">> \o resp.msg] >>]
    ELSE IF resp.kind = "results"
    THEN [ret |-> resp.urls, calls |-> 1, shown |-> <<>>]
    ELSE [ret |-> <<>>, calls |-> 1, shown |-> <<>>]

----------------------------------------------------------------------------
(* The room list *)

room_types == << <<"B","e","d","r","o","o","m">>, <<"B","a","t","h","r","o","o","m">>, <<"K","i","t","c","h","e","n">>, <<"L","i","v","i","n","g"," ","R","o","o","m">>,
                 <<"D","i","n","i","n","g"," ","R","o","o","m">>, <<"O","f","f","i","c","e">>, <<"G","a","r","a","g","e">>, <<"O","t","h","e","r">> >>

\* the room the Add Room button appends
DefaultRoom ==
    [type |-> <<"B","e","d","r","o","o","m">>, size |-> <<>>, style |-> <<>>, features |-> <<>>]

\* a variant that appends the room and no flag
AddRoomWithoutFlag(rooms, flags) ==
    [rooms |-> Append(rooms, DefaultRoom), flags |-> flags]

\* if st.button("Add Room"): both lists grow by one
AddRoomButton(rooms, flags) ==
    [rooms |-> Append(rooms, DefaultRoom), flags |-> Append(flags, FALSE)]

\* The values the widgets of the room at position i return.  Their keys
\* (room_type_{idx}, room_size_{idx}, room_style_{idx}, room_features_{idx},
\* remove_room_{idx}) are built from the position: a key the session holds
\* returns the value held, a new key returns the value= default.
RoomWidgets(store, rooms, i) ==
    IF i <= Len(store) THEN store[i]
    ELSE [type |-> IF \E t \in 1..Len(room_types) : room_types[t] = rooms[i].type
                   THEN rooms[i].type ELSE room_types[1],
          size |-> rooms[i].size, style |-> rooms[i].style,
          features |-> rooms[i].features, remove |-> FALSE]

\* the widget values of a run that renders the rooms `rooms`
RenderedWidgets(store, rooms) ==
    [i \in 1..Len(rooms) |-> RoomWidgets(store, rooms, i)]

\* the for loop of the form: every room and its flag take their widgets' values
FormLoop(rooms, flags, store) ==
    [rooms |-> [i \in 1..Len(rooms) |->
                    LET w == RoomWidgets(store, rooms, i)
                    IN  [type |-> w.type, size |-> w.size, style |-> w.style,
                         features |-> w.features]],
     flags |-> [i \in 1..Len(flags) |->
                    IF i <= Len(rooms) THEN RoomWidgets(store, rooms, i).remove
                    ELSE flags[i]]]

\* list.pop(idx)
Pop(list, i) == SubSeq(list, 1, i - 1) \o SubSeq(list, i + 1, Len(list))

\* the removal loop from position idx down to the first
RECURSIVE RemoveLoop(_, _, _)
RemoveLoop(rooms, flags, idx) ==
    IF idx = 0 THEN [rooms |-> rooms, flags |-> flags]
    ELSE IF flags[idx]
    THEN RemoveLoop(Pop(rooms, idx), Pop(flags, idx), idx - 1)
    ELSE RemoveLoop(rooms, flags, idx - 1)

\* a variant that walks the positions upwards
RECURSIVE RemoveLoopUp(_, _, _, _)
RemoveLoopUp(rooms, flags, idx, n) ==
    IF idx > n THEN [rooms |-> rooms, flags |-> flags]
    ELSE IF idx <= Len(flags) /\ flags[idx]
    THEN RemoveLoopUp(Pop(rooms, idx), Pop(flags, idx), idx + 1, n)
    ELSE RemoveLoopUp(rooms, flags, idx + 1, n)

RemoveFlaggedUpwards(rooms, flags) == RemoveLoopUp(rooms, flags, 1, Len(flags))

\* for idx in reversed(range(len(remove_room_flags))): pop the flagged
RemoveFlagged(rooms, flags) == RemoveLoop(rooms, flags, Len(flags))

----------------------------------------------------------------------------
(* The submission *)

\* the value of a widget the scenario does not show
None == "None"

Truthy(x) == x # None /\ x # <<>>

RoomLine(r) ==
    <<"-"," ">> \o r.type \o <<":"," ","S","i","z","e"," ">> \o r.size \o <<","," ","S","t","y","l","e"," ">> \o r.style
        \o <<","," ","F","e","a","t","u","r","e","s",":"," ">> \o r.features

\* "\n".join of the room lines
RoomDetailsStr(rooms) ==
    Join(<<"\n">>, [i \in 1..Len(rooms) |-> RoomLine(rooms[i])])

\* a variant that leaves the extras out
BuildPreferencesNoExtras(inp, room_details_str) ==
    <<"B","u","d","g","e","t",":"," ">> \o inp.budget \o <<","," ","P","r","i","o","r","i","t","y",":"," ">> \o inp.priority
        \o (IF Truthy(inp.amenities)
            THEN <<","," ","A","m","e","n","i","t","i","e","s",":"," ">> \o Join(<<","," ">>, inp.amenities) ELSE <<>>)
        \o (IF Truthy(inp.advanced_layout)
            THEN <<","," ","A","d","v","a","n","c","e","d"," ","L","a","y","o","u","t",":"," ">> \o inp.advanced_layout ELSE <<>>)
        \o (IF Truthy(room_details_str)
            THEN <<"\n","R","o","o","m"," ","D","e","t","a","i","l","s",":","\n">> \o room_details_str ELSE <<>>)

\* the preferences string of a submission
BuildPreferences(inp, room_details_str) ==
    <<"B","u","d","g","e","t",":"," ">> \o inp.budget \o <<","," ","P","r","i","o","r","i","t","y",":"," ">> \o inp.priority
        \o (IF Truthy(inp.extras) THEN <<","," ","E","x","t","r","a","s",":"," ">> \o inp.extras ELSE <<>>)
        \o (IF Truthy(inp.amenities)
            THEN <<","," ","A","m","e","n","i","t","i","e","s",":"," ">> \o Join(<<","," ">>, inp.amenities) ELSE <<>>)
        \o (IF Truthy(inp.advanced_layout)
            THEN <<","," ","A","d","v","a","n","c","e","d"," ","L","a","y","o","u","t",":"," ">> \o inp.advanced_layout ELSE <<>>)
        \o (IF Truthy(room_details_str)
            THEN <<"\n","R","o","o","m"," ","D","e","t","a","i","l","s",":","\n">> \o room_details_str ELSE <<>>)

\* a variant that goes on to generate with a field missing
AllRequiredSkipped(inp) == TRUE

\* all([style, size, rooms])
AllRequired(inp) == Truthy(inp.style) /\ Truthy(inp.size) /\ Truthy(inp.rooms)

\* the page of a run that shows no result
NoResult ==
    [submitted |-> FALSE, valid |-> FALSE, inp |-> None,
     preferences |-> <<>>, design |-> <<>>, hit |-> FALSE, gen_calls |-> 0,
     gen_failed |-> FALSE, img_calls |-> 0, raised |-> {}, shown |-> <<>>,
     images |-> <<>>, file_name |-> <<>>]

\* what the uploaded floor plan adds to the page
PlanShown(inp) ==
    IF inp.uploaded_plan = "application/pdf"
    THEN << [level |-> "info",
             text |-> <<"P","D","F"," ","p","r","e","v","i","e","w"," ","n","o","t"," ","s","u","p","p","o",
      "r","t","e","d",","," ","b","u","t"," ","f","i","l","e"," ","i","s"," ","u","p","l",
      "o","a","d","e","d",".">>] >>
    ELSE <<>>

\* The result part of a submitted run, on the rooms left after the removal:
\* the page, the cache and its history.  The prompt and the image query go
\* to the upstream services only, whose answers are textResp and imgResp.
Result(inp, rooms, textResp, imgResp) ==
    IF ~AllRequired(inp)
    THEN [page |-> [NoResult EXCEPT !.submitted = TRUE, !.inp = inp,
                       !.shown = << [level |-> "warning",
                                     text |-> <<"P","l","e","a","s","e"," ","c","o","m","p","l","e","t","e"," ","a","l","l"," ","r",
      "e","q","u","i","r","e","d"," ","f","i","e","l","d","s">>] >>],
          cache |-> design_cache, src |-> cache_src]
    ELSE LET preferences == BuildPreferences(inp, RoomDetailsStr(rooms))
             gen == generate_design_idea(design_cache, inp.style, inp.size,
                                         inp.rooms, preferences, textResp)
             img == fetch_unsplash_images(imgResp)
         IN  [page |->
                [submitted |-> TRUE, valid |-> TRUE, inp |-> inp,
                 preferences |-> preferences, design |-> gen.ret, hit |-> gen.hit,
                 gen_calls |-> gen.calls,
                 gen_failed |-> (gen.calls = 1 /\ TextFails(textResp)),
                 img_calls |-> img.calls,
                 raised |-> (IF gen.calls = 1 /\ textResp.kind = "exception"
                             THEN {textResp.msg} ELSE {})
                            \cup (IF imgResp.kind = "exception"
                                  THEN {imgResp.msg} ELSE {}),
                 shown |-> gen.shown \o img.shown
                           \o << [level |-> "success", text |-> <<"D","e","s","i","g","n"," ","G","e","n","e","r","a","t","e","d","!">>] >>
                           \o PlanShown(inp)
                           \o (IF img.ret = <<>>
                               THEN << [level |-> "warning",
                                        text |-> <<"C","o","u","l","d","n","'","t"," ","l","o","a","d"," ","d","e","s","i","g","n"," ",
      "i","m","a","g","e","s","."," ","S","h","o","w","i","n","g"," ","f","a","l","l","b",
      "a","c","k",".">>] >>
                               ELSE <<>>),
                 images |-> IF img.ret = <<>> THEN << DefaultImage >> ELSE img.ret,
                 file_name |-> inp.style \o <<"_","h","o","m","e","_","d","e","s","i","g","n",".","m","d">>],
              cache |-> gen.cache,
              src |-> IF gen.stored
                      THEN (get_cache_key(inp.style, inp.size, inp.rooms, preferences)
                               :> <<inp.style, inp.size, inp.rooms, preferences>>)
                           @@ cache_src
                      ELSE cache_src]

\* One run of main(): the button that started it, the values of the form and
\* what the two upstream services answer.
main(button, inp, textResp, imgResp) ==
    LET added == IF button = "add"
                 THEN AddRoomButton(room_details, remove_room_flags)
                 ELSE [rooms |-> room_details, flags |-> remove_room_flags]
        form == FormLoop(added.rooms, added.flags, widgets)
        kept == IF button = "submit" THEN RemoveFlagged(form.rooms, form.flags)
                ELSE form
        res == IF button = "submit"
               THEN Result(inp, kept.rooms, textResp, imgResp)
               ELSE [page |-> NoResult, cache |-> design_cache, src |-> cache_src]
    IN  /\ room_details' = kept.rooms
        /\ remove_room_flags' = kept.flags
        /\ widgets' = RenderedWidgets(widgets, added.rooms)
        /\ design_cache' = res.cache
        /\ cache_src' = res.src
        /\ out' = res.page
        /\ event' = button
        /\ UNCHANGED <<img_style, img_result>>

----------------------------------------------------------------------------
(* The user and the two upstream services *)

mainVars ==
    <<room_details, remove_room_flags, widgets, design_cache, cache_src, out, event>>

\* the exception text of a failed upstream call
ExcText == <<"5","0","3"," ","u","n","a","v","a","i","l","a","b","l","e">>

\* the rooms the user describes
RoomChoices ==
    { DefaultRoom,
      [type |-> <<"K","i","t","c","h","e","n">>, size |-> <<"1","2","x","1","4">>, style |-> <<"C","o","z","y">>,
       features |-> <<"I","s","l","a","n","d">>] }

\* the sidebar, the scenario and what the scenario adds to the form
PlainSidebar ==
    [budget |-> <<"E","c","o","n","o","m","y">>, priority |-> <<"F","u","n","c","t","i","o","n">>,
     scenario |-> "Real Estate Development", uploaded_plan |-> None,
     advanced_layout |-> None]

RenovationSidebar ==
    [budget |-> <<"L","u","x","u","r","y">>, priority |-> <<"B","a","l","a","n","c","e">>,
     scenario |-> "Home Renovation", uploaded_plan |-> "application/pdf",
     advanced_layout |-> None]

FirmSidebar ==
    [budget |-> <<"M","i","d","-","r","a","n","g","e">>, priority |-> <<"A","e","s","t","h","e","t","i","c","s">>,
     scenario |-> "Architectural Firm", uploaded_plan |-> None,
     advanced_layout |-> <<"z">>]

FormInput(style, size, rooms, extras, amenities, sc) ==
    [style |-> style, size |-> size, rooms |-> rooms, extras |-> extras,
     amenities |-> amenities, budget |-> sc.budget, priority |-> sc.priority,
     scenario |-> sc.scenario, uploaded_plan |-> sc.uploaded_plan,
     advanced_layout |-> sc.advanced_layout]

\* A session that edits the room list: the text service is down.
EnvRooms ==
    [inputs |-> { FormInput(<<>>, <<"c">>, <<"1">>, <<>>, <<>>, PlainSidebar),
                  FormInput(<<"A">>, <<"c">>, <<"1">>, <<>>, <<>>, PlainSidebar) },
     texts |-> { TextRaises(ExcText) },
     images |-> { ImageNoKey, ImageRaises(ExcText), ImageNoResults }]

\* A session that adds no room and submits the form again and again.
EnvForm ==
    [inputs |->
        { FormInput(style, size, <<"1">>, extras, <<>>, PlainSidebar) :
            style \in { <<"A">>, <<"A","_","b">> }, size \in { <<"c">>, <<"b","_","c">> },
            extras \in { <<>>, <<"x">> } }
        \cup { FormInput(<<"A">>, <<"c">>, <<"1">>, <<"x">>,
                         << <<"G","a","r","d","e","n">>, <<"G","y","m">> >>, FirmSidebar),
               FormInput(<<"A">>, <<"c">>, <<"1">>, <<>>, <<>>, RenovationSidebar) }
        \cup { FormInput(<<>>, <<"c">>, <<"1">>, <<"x">>, <<>>, PlainSidebar),
               FormInput(<<"A">>, <<>>, <<"1">>, <<>>, <<>>, PlainSidebar),
               FormInput(<<"A","_","b">>, <<"c">>, <<>>, <<>>, <<>>, PlainSidebar),
               FormInput(<<>>, <<>>, <<>>, <<>>, <<>>, PlainSidebar) },
     texts |-> { TextRaises(ExcText), TextReturns(<<>>), TextReturns(<<"#","1">>),
                 TextReturns(<<"#","2">>) },
     images |-> { ImageResults(<< "u1", "u2", "u3" >>) }]

\* the upstream text service returns at most MaxTexts texts in a session
TextResponses(env) ==
    IF Cardinality(DOMAIN design_cache) < MaxTexts THEN env.texts
    ELSE { t \in env.texts : TextFails(t) }

\* A new session whose GOOGLE_API_KEY is set: initialize_model returns the
\* model.  (Without the key every run stops in initialize_model, before the
\* room lists and the cache are touched.)
InitMainState ==
    /\ room_details = <<>>
    /\ remove_room_flags = <<>>
    /\ widgets = <<>>
    /\ design_cache = <<>>
    /\ cache_src = <<>>
    /\ out = NoResult
    /\ event = "start"

InitMain ==
    /\ InitMainState
    /\ img_style = <<>>
    /\ img_result = "none"

\* the user clicks Add Room
AddRoomClick ==
    /\ Len(room_details) < MaxRooms
    /\ main("add", None, None, None)

\* a widget outside the form changes: the script runs with no button pressed
Rerun == main("none", None, None, None)

\* the user fills in the widgets of the room shown at position i
EditRoomWidgets ==
    \E i \in 1..Len(widgets), r \in RoomChoices :
        /\ widgets' = [widgets EXCEPT ![i] =
                          [type |-> r.type, size |-> r.size, style |-> r.style,
                           features |-> r.features, remove |-> @.remove]]
        /\ event' = "edit"
        /\ UNCHANGED <<room_details, remove_room_flags, design_cache, cache_src,
                       out, img_style, img_result>>

\* the user ticks or unticks "Remove this room" at position i
ToggleRemoveRoom ==
    \E i \in 1..Len(widgets) :
        /\ widgets' = [widgets EXCEPT ![i].remove = ~@]
        /\ event' = "edit"
        /\ UNCHANGED <<room_details, remove_room_flags, design_cache, cache_src,
                       out, img_style, img_result>>

\* the user presses Generate Design
Submit(env) ==
    \E inp \in env.inputs, textResp \in TextResponses(env), imgResp \in env.images :
        main("submit", inp, textResp, imgResp)

Next ==
    \/ AddRoomClick
    \/ EditRoomWidgets
    \/ ToggleRemoveRoom
    \/ Submit(EnvRooms)
    \/ Rerun

Spec == InitMain /\ [][Next]_vars

NextForm == Submit(EnvForm) \/ Rerun

SpecForm == InitMain /\ [][NextForm]_vars

----------------------------------------------------------------------------
(* The calls of fetch_design_image *)

NoImage == "none"

StyleWords == { <<"M","o","d","e","r","n">>, <<"m","o","d","e","r","n">>, <<"R","U","S","T","I","C">>, <<"L","u","x","u","r","y">>, <<"V","i","c","t","o","r","i","a","n">>,
                <<"F","a","r","m","h","o","u","s","e">>, <<"t","r","a","d","i","t","i","o","n","a","l">>, <<"P","o","s","t","m","o","d","e","r","n","i","s","t">>,
                <<"M","i","n","i">> }

\* the styles of at most n words
RECURSIVE StylesOf(_)
StylesOf(n) ==
    IF n = 0 THEN { <<>> }
    ELSE LET shorter == StylesOf(n - 1)
         IN  shorter \cup StyleWords
                     \cup { s \o <<" ">> \o w : s \in shorter \ { <<>> }, w \in StyleWords }

StyleInputs == StylesOf(MaxWords)

InitImage ==
    /\ InitMainState
    /\ img_style \in StyleInputs
    /\ img_result = NoImage

\* the caller picks the next style
ChooseStyle ==
    /\ img_result # NoImage
    /\ img_style' \in StyleInputs
    /\ img_result' = NoImage
    /\ UNCHANGED mainVars

\* the call fetch_design_image(img_style)
FetchImage ==
    /\ img_result = NoImage
    /\ img_result' = fetch_design_image(img_style)
    /\ UNCHANGED <<img_style, mainVars>>

NextImage == ChooseStyle \/ FetchImage

SpecImage == InitImage /\ [][NextImage]_vars

----------------------------------------------------------------------------
(* What the claims speak of *)

\* the input tuple and the cache key of the submission the page shows
TupleOf(o) == <<o.inp.style, o.inp.size, o.inp.rooms, o.preferences>>

KeyOf(o) == get_cache_key(o.inp.style, o.inp.size, o.inp.rooms, o.preferences)

\* a step from one generated page to the next, both for the same input tuple
SameTupleAgain ==
    /\ event = "submit" /\ out.valid
    /\ event' = "submit" /\ out'.valid
    /\ TupleOf(out') = TupleOf(out)

\* the texts of the messages on the page
ShownTexts == { out.shown[i].text : i \in 1..Len(out.shown) }

----------------------------------------------------------------------------
(* C1: two consecutive generate_design_idea calls with the same tuple, the  *)
(* first of which asks the upstream service, issue one upstream call in     *)
(* all and return the same text, whatever the service answered.             *)

C1_OneCallWhateverTheOutcome ==
    [][SameTupleAgain /\ out.gen_calls = 1
          => out'.gen_calls = 0 /\ out'.design = out.design]_vars

(* C1 as amended: when the first call's upstream answer is a non-empty     *)
(* text, the second call is a cache hit, issues no upstream call and       *)
(* returns the same text.                                                  *)

C1_OneCallAfterSuccess ==
    [][SameTupleAgain /\ out.gen_calls = 1 /\ ~out.gen_failed
          => out'.hit /\ out'.gen_calls = 0 /\ out'.design = out.design]_vars

\* a submission answered from the entry its own tuple stored
C1_Witness ==
    /\ event = "submit" /\ out.valid /\ out.hit
    /\ cache_src[KeyOf(out)] = TupleOf(out)
    /\ out.design = design_cache[KeyOf(out)]

----------------------------------------------------------------------------
(* C2: a submission with style, size or rooms empty reports the validation *)
(* failure, calls neither upstream service and leaves the cache unchanged. *)

C2_NoCallWhenFieldMissing ==
    [][(/\ event' = "submit"
        /\ (out'.inp.style = <<>> \/ out'.inp.size = <<>> \/ out'.inp.rooms = <<>>))
          => /\ ~out'.valid
             /\ out'.gen_calls = 0 /\ out'.img_calls = 0
             /\ design_cache' = design_cache
             /\ \E i \in 1..Len(out'.shown) : out'.shown[i].level = "warning"]_vars

\* a submission without a size, made when the cache holds a design
C2_Witness ==
    /\ event = "submit" /\ out.submitted /\ ~out.valid
    /\ out.inp.style # <<>> /\ out.inp.size = <<>>
    /\ DOMAIN design_cache # {}

----------------------------------------------------------------------------
(* C3: when the upstream text call raises or returns an empty text, the    *)
(* design returned is non-empty and holds the style, the size and the room *)
(* count as typed.                                                         *)

C3_FallbackHoldsInputs ==
    (out.valid /\ out.gen_failed) =>
        /\ out.design # <<>>
        /\ Contains(out.inp.style, out.design)
        /\ Contains(out.inp.size, out.design)
        /\ Contains(out.inp.rooms, out.design)

\* an upstream exception on a style with capitals
C3_Witness ==
    /\ out.valid /\ out.gen_failed /\ out.raised # {}
    /\ out.inp.style # Lower(out.inp.style)

----------------------------------------------------------------------------
(* C4: a submission leaves in room_details the rooms whose flag was false, *)
(* in their order and with their four fields; with three rooms and the     *)
(* first and third flagged, the second alone is left.                      *)

\* the positions of the unflagged rooms, and the k-th of them
UnflaggedPositions(flags) == { i \in 1..Len(flags) : ~flags[i] }

KthUnflagged(flags, k) ==
    CHOOSE i \in UnflaggedPositions(flags) :
        Cardinality({ j \in UnflaggedPositions(flags) : j < i }) = k - 1

UnflaggedRooms(rooms, flags) ==
    [k \in 1..Cardinality(UnflaggedPositions(flags)) |-> rooms[KthUnflagged(flags, k)]]

C4_SubmitKeepsUnflagged ==
    [][event' = "submit" =>
          LET form == FormLoop(room_details, remove_room_flags, widgets)
          IN  /\ room_details' = UnflaggedRooms(form.rooms, form.flags)
              /\ form.flags = <<TRUE, FALSE, TRUE>>
                    => room_details' = << form.rooms[2] >>]_vars

\* three rooms, the second described, the first and third flagged and removed
C4_Witness ==
    /\ event = "submit"
    /\ Len(widgets) = 3
    /\ widgets[1].remove /\ ~widgets[2].remove /\ widgets[3].remove
    /\ Len(room_details) = 1
    /\ room_details[1] # DefaultRoom
    /\ room_details[1].type = widgets[2].type

----------------------------------------------------------------------------
(* C5: remove_room_flags is always as long as room_details.                *)

C5_FlagsInLockStep == Len(remove_room_flags) = Len(room_details)

\* a submission has removed one of three rooms
C5_Witness ==
    /\ event = "submit"
    /\ Len(widgets) = 3
    /\ Len(room_details) = 2
    /\ Len(remove_room_flags) = 2

----------------------------------------------------------------------------
(* C6: two submissions that differ in the extras alone have different      *)
(* cache keys; once both are generated the cache holds an entry for each,  *)
(* and the second is not answered from the first's.                        *)

DifferInExtrasOnly(a, b) ==
    /\ a.extras # b.extras
    /\ [a EXCEPT !.extras = <<>>] = [b EXCEPT !.extras = <<>>]

C6_ExtrasSeparateEntries ==
    [][(/\ event = "submit" /\ out.valid
        /\ event' = "submit" /\ out'.valid
        /\ DifferInExtrasOnly(out.inp, out'.inp))
          => /\ KeyOf(out') # KeyOf(out)
             /\ (KeyOf(out) \in DOMAIN design_cache /\ ~out'.gen_failed)
                   => /\ { KeyOf(out), KeyOf(out') } \subseteq DOMAIN design_cache'
                      /\ design_cache'[KeyOf(out)] = design_cache[KeyOf(out)]
                      /\ design_cache'[KeyOf(out')] = out'.design]_vars

\* the cache holds different designs for the submission shown and for the
\* same submission without its extras
C6_Witness ==
    /\ event = "submit" /\ out.valid /\ out.inp.extras # <<>>
    /\ LET bare == [out.inp EXCEPT !.extras = <<>>]
           bareKey == get_cache_key(bare.style, bare.size, bare.rooms,
                                    BuildPreferences(bare, RoomDetailsStr(room_details)))
       IN  /\ { bareKey, KeyOf(out) } \subseteq DOMAIN design_cache
           /\ design_cache[bareKey] # design_cache[KeyOf(out)]

----------------------------------------------------------------------------
(* C7: when an upstream call fails, no message on the page holds the text  *)
(* of the exception, and after a failed text generation the page shows no  *)
(* error beside the success state.                                         *)

C7_NoExceptionTextShown ==
    /\ \A msg \in out.raised : \A text \in ShownTexts : ~Contains(msg, text)
    /\ out.gen_failed =>
          \A i \in 1..Len(out.shown) : out.shown[i].level # "error"

----------------------------------------------------------------------------
(* C9: a submission answered from the cache gets the text an upstream call *)
(* produced for its own tuple: no two different tuples share a cache key.  *)

C9_HitIsOwnEntry ==
    (out.valid /\ out.hit) => cache_src[KeyOf(out)] = TupleOf(out)

----------------------------------------------------------------------------
(* C10: after a submission that removed rooms, a rerun or a submission in  *)
(* which the user changes no room widget leaves the rooms that survived as *)
(* they are and removes none of them.                                      *)

C10_SurvivorsUntouched ==
    [][(/\ event = "submit" /\ Len(widgets) > Len(room_details)
        /\ event' \in { "none", "submit" })
          => room_details' = room_details]_vars

----------------------------------------------------------------------------
(* C8: fetch_design_image returns the image of the first key, in table     *)
(* order, whose lower-cased form is a substring of the lower-cased style,  *)
(* and the default image when no key matches; "Modern Farmhouse" gives the *)
(* Modern image and "Victorian" the default.                               *)

MatchingKeys(style) ==
    { i \in 1..Len(style_images) :
        \E j \in 0..(Len(style) - Len(style_images[i].key)) :
            \A k \in 1..Len(style_images[i].key) :
                LowerChar(style[j + k]) = LowerChar(style_images[i].key[k]) }

FirstMatchImage(style) ==
    IF MatchingKeys(style) = {} THEN DefaultImage
    ELSE style_images[CHOOSE i \in MatchingKeys(style) :
                          \A j \in MatchingKeys(style) : i <= j].url

C8_FirstMatch ==
    img_result # NoImage =>
        /\ img_result = FirstMatchImage(img_style)
        /\ img_style = <<"M","o","d","e","r","n"," ","F","a","r","m","h","o","u","s","e">> => img_result = style_images[1].url
        /\ img_style = <<"V","i","c","t","o","r","i","a","n">> => img_result = DefaultImage

\* a style that holds two keys, the later one in the table first
C8_Witness ==
    /\ img_style = <<"L","u","x","u","r","y"," ","m","o","d","e","r","n">>
    /\ img_result = style_images[1].url

=============================================================================
